---- MODULE Spec2Model ----
(***************************************************************************)
(* A model of the auto-analyst pipeline: the three agents (TaskPlanner,    *)
(* ResearchAgent, CriticAgent), the BaseLLM wrapper they share and the     *)
(* orchestrator AutoAnalyst.analyze.                                       *)
(*                                                                         *)
(* Python values are modelled as follows.                                  *)
(*   - a str is a sequence of chunks (TLA+ strings); "" is << >>;          *)
(*   - a JSON value is tagged with its type: Str, Num, List, Obj;          *)
(*   - a dict is a function from its keys to its values, so that           *)
(*     `k in d` is k \in DOMAIN d;                                         *)
(*   - a call that may raise returns [exc |-> name] when it raises and     *)
(*     [exc |-> "", ret |-> value] when it returns.                        *)
(* A model response is a text: a sequence of tokens. A token is an opening *)
(* brace, a closing brace, a piece of prose, or a run of well-formed JSON   *)
(* members ("key": value, separators included). json.loads accepts exactly *)
(* the texts made of an opening brace, members, and a closing brace.       *)
(* The variable log keeps the calls analyze has made to the agents, in     *)
(* order, each with its argument and its result; the variable files keeps  *)
(* the files the run has written under outputs/.                           *)
(***************************************************************************)
EXTENDS Integers, Sequences, FiniteSets, TLC

\* Bounds of the model.
MaxLen == 5       \* tokens in a model response
MaxErrLen == 3    \* tokens in the message of a failed model invocation
MaxHits == 1      \* search hits a provider returns

VARIABLES pc, problem, plan, idx, all_research, all_critiques, final_report,
          files, log, call

vars == <<pc, problem, plan, idx, all_research, all_critiques, final_report,
          files, log, call>>

pipeline_vars == <<pc, problem, plan, idx, all_research, all_critiques,
                   final_report, files, log>>

----------------------------------------------------------------------------
\* Python values

Str(s) == [kind |-> "str", v |-> s]

Num(n) == [kind |-> "num", v |-> n]

List(l) == [kind |-> "list", v |-> l]

Obj(o) == [kind |-> "obj", v |-> o]

\* dict.get(k, default)
Get(d, k, default) == IF k \in DOMAIN d THEN d[k] ELSE default

\* d[k] = v
Put(d, k, v) == [x \in DOMAIN d \cup {k} |-> IF x = k THEN v ELSE d[x]]

\* the decimal rendering of a small count inside an f-string
NumStr(n) == CASE n = 0 -> "0" [] n = 1 -> "1" [] n = 2 -> "2" [] n = 3 -> "3"
               [] n = 4 -> "4" [] n = 5 -> "5" [] n = 6 -> "6" [] n = 7 -> "7"
               [] n = 8 -> "8" [] n = 9 -> "9" [] OTHER -> "many"

\* a JSON string or number inside an f-string
format(v) == IF v.kind = "num" THEN <<NumStr(v.v)>> ELSE v.v

\* str.lower, chunk by chunk: the chunks with an upper-case letter that
\* occur in task texts, and their lower-case forms; every other chunk of
\* the model is in lower case already
lower_of ==
    [c \in {"Survey the market", "Compare the vendors", "Estimate the demand",
            "Review the findings", "Recommend a vendor", "SUGGEST a price",
            "Handle parsing error",
            "Research and gather information about the problem",
            "Analyze the gathered information",
            "Validate the analysis and provide recommendations"} |->
        CASE c = "Survey the market" -> "survey the market"
          [] c = "Compare the vendors" -> "compare the vendors"
          [] c = "Estimate the demand" -> "estimate the demand"
          [] c = "Review the findings" -> "review the findings"
          [] c = "Recommend a vendor" -> "recommend a vendor"
          [] c = "SUGGEST a price" -> "suggest a price"
          [] c = "Handle parsing error" -> "handle parsing error"
          [] c = "Research and gather information about the problem" ->
                "research and gather information about the problem"
          [] c = "Analyze the gathered information" ->
                "analyze the gathered information"
          [] c = "Validate the analysis and provide recommendations" ->
                "validate the analysis and provide recommendations"]

lower(text) ==
    [i \in 1..Len(text) |->
        IF text[i] \in DOMAIN lower_of THEN lower_of[text[i]] ELSE text[i]]

\* the chunks of the model that have the needle as a substring
chunks_with(needle) ==
    CASE needle = "recommend" ->
            {"recommend a vendor",
             "validate the analysis and provide recommendations",
             "Validate the analysis and provide recommendations"}
      [] needle = "suggest" -> {"suggest a price"}
      [] OTHER -> {}

\* needle in text, for a needle that lies within one chunk
contains(text, needle) == \E i \in 1..Len(text) : text[i] \in chunks_with(needle)

Returned(v) == [exc |-> "", ret |-> v]

Raised(e) == [exc |-> e]

----------------------------------------------------------------------------
\* Texts

LB == [c |-> "{"]

RB == [c |-> "}"]

\* prose: any run of characters without a brace
X == [c |-> "x"]

\* a run of well-formed JSON members "k": v, ... given as the dict they spell
Mems(d) == [c |-> "m", d |-> d]

\* the single member "k": v
Mem(k, v) == Mems(k :> v)

\* json.dumps of a dict
dumps(d) == <<LB, Mems(d), RB>>

\* all texts of at most n tokens over an alphabet
Texts(alphabet, n) == UNION {[1..k -> alphabet] : k \in 0..n}

\* str.find: the 0-based index of the first occurrence, or -1
find(text, ch) ==
    IF \E i \in 1..Len(text) : text[i] = ch
    THEN (CHOOSE i \in 1..Len(text) :
              text[i] = ch /\ \A j \in 1..(i - 1) : text[j] # ch) - 1
    ELSE -1

\* str.rfind: the 0-based index of the last occurrence, or -1
rfind(text, ch) ==
    IF \E i \in 1..Len(text) : text[i] = ch
    THEN (CHOOSE i \in 1..Len(text) :
              text[i] = ch /\ \A j \in (i + 1)..Len(text) : text[j] # ch) - 1
    ELSE -1

\* text[start:end] for 0 <= start < end <= len(text)
slice(text, start, end) == SubSeq(text, start + 1, end)

\* json.loads(s) returns (rather than raising JSONDecodeError)
loads_ok(s) ==
    /\ Len(s) >= 2
    /\ s[1] = LB
    /\ s[Len(s)] = RB
    /\ \A i \in 2..(Len(s) - 1) : s[i].c = "m"

\* the dict json.loads(s) returns: of a repeated key the last member wins
loads_dict(s) ==
    LET pos == 2..(Len(s) - 1)
        keys == UNION {DOMAIN s[i].d : i \in pos}
        last(k) == CHOOSE i \in pos :
                       /\ k \in DOMAIN s[i].d
                       /\ \A j \in pos : j > i => k \notin DOMAIN s[j].d
    IN  [k \in keys |-> s[last(k)].d[k]]

loads(s) == IF loads_ok(s) THEN Returned(loads_dict(s)) ELSE Raised("JSONDecodeError")

----------------------------------------------------------------------------
\* BaseLLM

\* The outcome of self.llm.invoke(prompt): a response with some content, or
\* an exception with some message. The model is not under the program's
\* control: every action draws the outcome from a set.
Response(text) == [ok |-> TRUE, text |-> text]

Failure(message) == [ok |-> FALSE, text |-> message]

ErrorPrefix == [c |-> "Error generating response: "]

\* BaseLLM.generate / __call__
generate(out) == IF out.ok THEN out.text ELSE <<ErrorPrefix>> \o out.text

----------------------------------------------------------------------------
\* TaskPlanner

Subtask(id, task, agent, tools, expected_output) ==
    [id |-> id, task |-> task, agent |-> agent, tools |-> tools,
     expected_output |-> expected_output]

\* the dict literal of TaskPlanner._extract_json
planner_canned ==
    [problem |-> Str(<<"Parsing failed">>),
     subtasks |-> List(<< Subtask(1, <<"Handle parsing error">>, "system",
                                  << >>, <<"Error message">>) >>),
     rationale |-> Str(<<"JSON parsing failed from LLM response">>)]

\* an extractor that does not compare the positions of the two braces
planner_extract_unordered(text) ==
    LET start == find(text, LB)
        end == rfind(text, RB) + 1
    IN  IF start >= 0 /\ end > 0 THEN slice(text, start, end)
        ELSE dumps(planner_canned)

\* TaskPlanner._extract_json
planner_extract_json(text) ==
    LET start == find(text, LB)
        end == rfind(text, RB) + 1
    IN  IF start >= 0 /\ end > start THEN slice(text, start, end)
        ELSE dumps(planner_canned)

required_keys == <<"problem", "subtasks", "rationale">>

\* a validation that forgets the isinstance check
validate_plan_presence_only(p) ==
    IF \E i \in 1..Len(required_keys) : required_keys[i] \notin DOMAIN p
    THEN Raised("ValueError")
    ELSE Returned(p)

\* TaskPlanner._validate_plan
validate_plan(p) ==
    IF \E i \in 1..Len(required_keys) : required_keys[i] \notin DOMAIN p
    THEN Raised("ValueError")
    ELSE IF p["subtasks"].kind # "list"
         THEN Raised("ValueError")
         ELSE Returned(p)

\* TaskPlanner._create_default_plan
create_default_plan(prob) ==
    [problem |-> Str(prob),
     subtasks |-> List(<<
        Subtask(1, <<"Research and gather information about the problem">>,
                "researcher", <<"web_search">>,
                <<"Collection of relevant information and sources">>),
        Subtask(2, <<"Analyze the gathered information">>, "analyst", << >>,
                <<"Analysis of pros, cons, and insights">>),
        Subtask(3, <<"Validate the analysis and provide recommendations">>,
                "critic", << >>,
                <<"Validated insights and actionable recommendations">>) >>),
     rationale |-> Str(<<"Default three-step research pipeline">>)]

\* TaskPlanner.create_plan: everything after the prompt runs inside
\* try/except Exception, whose handler returns the default plan.
create_plan(prob, out) ==
    LET response == generate(out)
        json_str == planner_extract_json(response)
        parsed == loads(json_str)
    IN  IF parsed.exc # "" THEN Returned(create_default_plan(prob))
        ELSE IF validate_plan(parsed.ret).exc # ""
             THEN Returned(create_default_plan(prob))
             ELSE Returned(parsed.ret)

----------------------------------------------------------------------------
\* ResearchAgent

\* s[:n]
Take(s, n) == SubSeq(s, 1, IF n < Len(s) THEN n ELSE Len(s))

\* the i-th hit a search provider returns, already in the shape
\* {"title", "snippet", "url"} that search_web and _fallback_search build
Hit(i) == [title |-> <<"title", NumStr(i)>>, snippet |-> <<"snippet", NumStr(i)>>,
           url |-> <<"url", NumStr(i)>>]

HitLists == {[i \in 1..n |-> Hit(i)] : n \in 0..MaxHits}

\* What a search provider does when called: it raises, or returns hits.
Down == [ok |-> FALSE, hits |-> << >>]

Found(hits) == [ok |-> TRUE, hits |-> hits]

ProviderOutcomes == {Down} \cup {Found(h) : h \in HitLists}

\* The search environment of one research_topic call: whether SERP_API_KEY
\* is configured, and what each provider does if called.
SearchOutcomes ==
    [key : BOOLEAN, primary : ProviderOutcomes, secondary : ProviderOutcomes]

max_results == 5

\* A search query is modelled by its words, the items of query.split().
\* A word is its text and, for telling the filler words apart, a number.
Word(text, n) == [w |-> text, n |-> n]

\* the token f"{query} 2024" ends with
recency_token == Word("2024", 0)

\* needle in word, for the two needles of _optimize_query; "sku120245" is
\* a product code that has the digits of 2024 inside it
word_has(word, needle) ==
    CASE needle = "2024" -> word.w \in {"2024", "sku120245"}
      [] needle = "2023" -> word.w = "2023"
      [] OTHER -> FALSE

\* needle in query, for a needle without a space
query_has(query, needle) == \E i \in 1..Len(query) : word_has(query[i], needle)

\* an optimizer that looks for "2024" only
optimize_query_2024_only(query) ==
    IF ~query_has(query, "2024") THEN Append(query, recency_token) ELSE query

\* ResearchAgent._optimize_query (lower() and strip() change neither the
\* digits nor the words)
optimize_query(query) ==
    IF ~query_has(query, "2024") /\ ~query_has(query, "2023")
    THEN Append(query, recency_token)
    ELSE query

long_query == 15

kept_words == 12

\* the "q" parameter search_web sends to the primary provider: the
\* optimized query, cut to its first words when it is long
primary_query(query) ==
    LET optimized_query == optimize_query(query)
    IN  IF Len(optimized_query) > long_query
        THEN Take(optimized_query, kept_words)
        ELSE optimized_query

\* the queries search_web sends: to the primary provider when the key is
\* configured, to the secondary one (_fallback_search, with the query as
\* it was given) when there is no key or the primary raises
search_requests(query, s) ==
    [primary |-> IF s.key THEN <<primary_query(query)>> ELSE << >>,
     secondary |-> IF ~s.key \/ ~s.primary.ok THEN <<query>> ELSE << >>]

\* ResearchAgent._fallback_search
fallback_search(query, s) ==
    IF ~s.secondary.ok THEN << >> ELSE s.secondary.hits

\* ResearchAgent.search_web
search_web(query, s) ==
    IF ~s.key THEN fallback_search(query, s)
    ELSE IF ~s.primary.ok THEN fallback_search(query, s)
         ELSE Take(s.primary.hits, max_results)

\* the dict literal of ResearchAgent._extract_json
researcher_canned ==
    [topic |-> Str(<<"JSON extraction failed">>),
     summary |-> Str(<<"Could not parse LLM response">>),
     key_findings |-> List(<< >>),
     statistics |-> List(<< >>),
     sources |-> List(<< >>),
     gaps |-> List(<< <<"Could not parse analysis">> >>),
     next_steps |-> List(<< <<"Retry research">> >>)]

\* an extractor that stops at the first closing brace
researcher_span_first_close(text) ==
    LET start == find(text, LB)
        end == find(text, RB) + 1
    IN  IF start >= 0 /\ end > start THEN slice(text, start, end)
        ELSE dumps(researcher_canned)

\* ResearchAgent._extract_json
researcher_extract_json(text) ==
    LET start == find(text, LB)
        end == rfind(text, RB) + 1
    IN  IF start >= 0 /\ end > start THEN slice(text, start, end)
        ELSE dumps(researcher_canned)

\* ResearchAgent._create_empty_research
create_empty_research(topic) ==
    [topic |-> Str(topic),
     summary |-> Str(<<"No search results found">>),
     key_findings |-> List(<< >>),
     statistics |-> List(<< >>),
     sources |-> List(<< >>),
     gaps |-> List(<< <<"No information available from search">> >>),
     next_steps |-> List(<< <<"Try different search terms">>,
                            <<"Check internet connection">> >>),
     raw_results |-> List(<< >>)]

\* a basic research record that leaves out the statistics
create_basic_research_no_statistics(topic, search_results) ==
    LET top == Take(search_results, 3)
        n == NumStr(Len(search_results))
    IN  [topic |-> Str(topic),
         summary |-> Str(<<"Found ", n, " results but analysis failed">>),
         key_findings |-> List(<<
             [category |-> <<"Raw Search Results">>,
              points |-> [i \in 1..Len(top) |-> top[i].title \o <<"...">>]] >>),
         sources |-> List([i \in 1..Len(top) |->
             [title |-> top[i].title, url |-> top[i].url,
              credibility |-> "unknown"]]),
         gaps |-> List(<< <<"LLM analysis unavailable">> >>),
         next_steps |-> List(<< <<"Manual analysis required">> >>),
         raw_results |-> List(search_results)]

\* ResearchAgent._create_basic_research (titles are shorter than 100
\* characters, so r['title'][:100] is the title)
create_basic_research(topic, search_results) ==
    LET top == Take(search_results, 3)
        n == NumStr(Len(search_results))
    IN  [topic |-> Str(topic),
         summary |-> Str(<<"Found ", n, " results but analysis failed">>),
         key_findings |-> List(<<
             [category |-> <<"Raw Search Results">>,
              points |-> [i \in 1..Len(top) |-> top[i].title \o <<"...">>]] >>),
         statistics |-> List(<< <<"Total results: ", n>> >>),
         sources |-> List([i \in 1..Len(top) |->
             [title |-> top[i].title, url |-> top[i].url,
              credibility |-> "unknown"]]),
         gaps |-> List(<< <<"LLM analysis unavailable">> >>),
         next_steps |-> List(<< <<"Manual analysis required">> >>),
         raw_results |-> List(search_results)]

\* a research_topic that checks the parsed record for its top-level keys
research_topic_validated(topic, s, out) ==
    LET query == topic
        search_results == search_web(query, s)
        keys == {"topic", "summary", "key_findings", "statistics", "sources",
                 "gaps", "next_steps"}
    IN  IF search_results = << >>
        THEN Returned(create_empty_research(topic))
        ELSE LET response == generate(out)
                 json_str == researcher_extract_json(response)
                 parsed == loads(json_str)
             IN  IF parsed.exc # "" \/ ~(keys \subseteq DOMAIN parsed.ret)
                 THEN Returned(create_basic_research(topic, search_results))
                 ELSE Returned(Put(parsed.ret, "raw_results", List(search_results)))

\* a research_topic without the early return on an empty search
research_topic_always_asks(topic, s, out) ==
    LET search_results == search_web(topic, s)
        parsed == loads(researcher_extract_json(generate(out)))
    IN  IF parsed.exc # ""
        THEN Returned(create_basic_research(topic, search_results))
        ELSE Returned(Put(parsed.ret, "raw_results", List(search_results)))

\* ResearchAgent.research_topic with search_query = None. Formatting the
\* hits cannot raise: every hit has the three keys. The model is invoked
\* only when the search returned something.
research_topic(topic, s, out) ==
    LET query == topic
        search_results == search_web(query, s)
    IN  IF search_results = << >>
        THEN Returned(create_empty_research(topic))
        ELSE LET response == generate(out)
                 json_str == researcher_extract_json(response)
                 parsed == loads(json_str)
             IN  IF parsed.exc # ""
                 THEN Returned(create_basic_research(topic, search_results))
                 ELSE Returned(Put(parsed.ret, "raw_results", List(search_results)))

----------------------------------------------------------------------------
\* CriticAgent

\* bool(v) of a JSON value
Truthy(v) == CASE v.kind = "num" -> v.v # 0
               [] OTHER -> v.v # << >>

\* The exception CriticAgent._prepare_findings_summary raises on a research
\* dict, "" when it returns. Only the loop over key_findings indexes its
\* items (finding['category']); every other access is a .get or a slice.
\* The text it returns goes into the prompt only.
prepare_findings_summary_exc(research) ==
    IF "key_findings" \notin DOMAIN research THEN ""
    ELSE LET kf == research["key_findings"]
         IN  IF ~Truthy(kf) THEN ""
             ELSE IF kf.kind # "list" THEN "TypeError"
             ELSE IF \E i \in 1..Len(kf.v) : "category" \notin DOMAIN kf.v[i]
                  THEN "KeyError"
                  ELSE ""

\* the dict literal of CriticAgent._extract_json
critic_canned ==
    [topic |-> Str(<<"JSON extraction failed">>),
     validation |-> Obj(
         [completeness_score |-> Num(5),
          accuracy_score |-> Num(5),
          source_credibility_score |-> Num(5),
          biases_identified |-> List(<< <<"Could not parse critique">> >>),
          assumptions |-> List(<< <<"Parsing failed">> >>)]),
     critique |-> Obj(
         [strengths |-> List(<< <<"Critique system operational">> >>),
          weaknesses |-> List(<< <<"Could not generate proper critique">> >>),
          logical_issues |-> List(<< <<"Parsing error">> >>),
          missing_perspectives |-> List(<< <<"Full critique unavailable">> >>)]),
     improvements |-> List(<<
         [area |-> <<"Critique system">>,
          suggestion |-> <<"Retry critique generation">>,
          priority |-> "high"] >>),
     overall_quality |-> Num(5),
     confidence_level |-> Str(<<"low">>),
     recommendation |-> Str(<<"Manual review required">>)]

\* an extractor that returns the empty string when it finds no span
critic_extract_or_empty(text) ==
    LET start == find(text, LB)
        end == rfind(text, RB) + 1
    IN  IF start >= 0 /\ end > start THEN slice(text, start, end)
        ELSE << >>

\* CriticAgent._extract_json
critic_extract_json(text) ==
    LET start == find(text, LB)
        end == rfind(text, RB) + 1
    IN  IF start >= 0 /\ end > start THEN slice(text, start, end)
        ELSE dumps(critic_canned)

\* CriticAgent._create_default_critique
create_default_critique(research) ==
    [topic |-> Get(research, "topic", Str(<<"Unknown">>)),
     research_topic |-> Get(research, "topic", Str(<< >>)),
     original_research_summary |-> Get(research, "summary", Str(<< >>)),
     validation |-> Obj(
         [completeness_score |-> Num(5),
          accuracy_score |-> Num(5),
          source_credibility_score |-> Num(5),
          biases_identified |-> List(<< <<"Unknown due to critique failure">> >>),
          assumptions |-> List(<< <<"Default critique generated">> >>)]),
     critique |-> Obj(
         [strengths |-> List(<< <<"Research was conducted">>,
                                <<"Findings were documented">> >>),
          weaknesses |-> List(<< <<"Critique system failed">>,
                                 <<"Limited validation">> >>),
          logical_issues |-> List(<< <<"Unable to assess">> >>),
          missing_perspectives |-> List(<< <<"Full critique unavailable">> >>)]),
     improvements |-> List(<<
         [area |-> <<"Critique System">>,
          suggestion |-> <<"Fix critique generation or use manual review">>,
          priority |-> "high"] >>),
     overall_quality |-> Num(5),
     confidence_level |-> Str(<<"low">>),
     recommendation |-> Str(<<"Use with caution and manual verification">>)]

\* CriticAgent.critique_research: the findings summary is prepared before
\* the try block, so what it raises leaves the method.
critique_research(research, out) ==
    LET findings_exc == prepare_findings_summary_exc(research)
    IN  IF findings_exc # "" THEN Raised(findings_exc)
        ELSE LET response == generate(out)
                 json_str == critic_extract_json(response)
                 parsed == loads(json_str)
             IN  IF parsed.exc # "" THEN Returned(create_default_critique(research))
                 ELSE Returned(
                     Put(Put(parsed.ret, "research_topic",
                             Get(research, "topic", Str(<< >>))),
                         "original_research_summary",
                         Get(research, "summary", Str(<< >>))))

----------------------------------------------------------------------------
\* Inputs of the stage operations

Problems == { <<"Evaluate X">> }

Topics == { <<"Research and gather information about the problem">> }

\* Tokens a planning response is made of: prose, braces, and each required
\* member of a plan, with values of the expected and of another type.
PlanAlphabet ==
    { LB, RB, X,
      Mem("problem", Str(<<"Evaluate X">>)),
      Mem("subtasks", List(<< Subtask(1, <<"Survey the market">>, "researcher",
                                      << >>, <<"Market overview">>) >>)),
      Mem("subtasks", Str(<<"none">>)),
      Mem("rationale", Num(7)) }

GoodFinding == [category |-> <<"Market Trends">>, points |-> << <<"Growing demand">> >>]

\* a key_findings entry that is an object without 'category'
BareFinding == [points |-> << <<"Growing demand">> >>]

\* every field of a research record but summary
ResearchRest ==
    [topic |-> Str(<<"Market">>),
     key_findings |-> List(<<GoodFinding>>),
     statistics |-> List(<< <<"40% growth">> >>),
     sources |-> List(<< [title |-> <<"Sample Source">>,
                          url |-> <<"https://example.com">>,
                          credibility |-> "medium"] >>),
     gaps |-> List(<< >>),
     next_steps |-> List(<< >>)]

ResearchAlphabet ==
    { LB, RB, X, Mem("summary", Str(<<"Sample research">>)), Mems(ResearchRest) }

\* every field of a critique but overall_quality
CritiqueRest ==
    [topic |-> Str(<<"Market">>),
     validation |-> Obj(
         [completeness_score |-> Num(7),
          accuracy_score |-> Num(8),
          source_credibility_score |-> Num(6),
          biases_identified |-> List(<< >>),
          assumptions |-> List(<< >>)]),
     critique |-> Obj(
         [strengths |-> List(<< <<"Clear">> >>),
          weaknesses |-> List(<< <<"Narrow">> >>),
          logical_issues |-> List(<< >>),
          missing_perspectives |-> List(<< >>)]),
     improvements |-> List(<<
         [area |-> <<"Scope">>, suggestion |-> <<"Add regions">>,
          priority |-> "medium"] >>),
     confidence_level |-> Str(<<"high">>),
     recommendation |-> Str(<<"Usable">>)]

CritiqueAlphabet ==
    { LB, RB, X, Mem("overall_quality", Num(8)), Mems(CritiqueRest) }

\* The message of a failed invocation: prose, possibly quoting the body of
\* the provider's error response, which is JSON.
ErrorAlphabet == { LB, RB, X, Mem("error", Str(<<"invalid api key">>)) }

Failures == {Failure(t) : t \in Texts(ErrorAlphabet, MaxErrLen)}

PlanOutcomes == {Response(t) : t \in Texts(PlanAlphabet, MaxLen)} \cup Failures

ResearchOutcomes == {Response(t) : t \in Texts(ResearchAlphabet, MaxLen)} \cup Failures

CritiqueOutcomes == {Response(t) : t \in Texts(CritiqueAlphabet, MaxLen)} \cup Failures

\* One search environment per path through search_web and _fallback_search.
SearchCases ==
    {[key |-> TRUE, primary |-> p, secondary |-> Down] : p \in ProviderOutcomes}
        \cup {[key |-> k, primary |-> Down, secondary |-> q] :
                 k \in BOOLEAN, q \in {Down, Found([i \in 1..MaxHits |-> Hit(i)])}}

\* Responses of each shape the research stage tells apart: a full record,
\* one whose finding has no category, one without summary, one whose
\* key_findings is the number 0, an empty object, prose only, and two
\* records separated by prose.
ResearchSamples ==
    { Response(<<LB, Mem("summary", Str(<<"Sample research">>)), Mems(ResearchRest), RB>>),
      Response(<<LB, Mem("summary", Str(<<"Sample research">>)), Mems(ResearchRest),
                 Mem("key_findings", List(<<BareFinding>>)), RB>>),
      Response(<<LB, Mems(ResearchRest), RB>>),
      Response(<<LB, Mem("summary", Str(<<"Sample research">>)), Mems(ResearchRest),
                 Mem("key_findings", Num(0)), RB>>),
      Response(<<LB, RB>>),
      Response(<<X>>),
      Response(<<LB, Mems(ResearchRest), RB, X, LB, RB>>) }

\* the hand-written research dict of the critic's own test
SampleResearch ==
    [topic |-> Str(<<"AI interview prep tools market in South Asia">>),
     summary |-> Str(<<"Sample research about AI interview tools">>),
     key_findings |-> List(<<GoodFinding>>),
     sources |-> ResearchRest["sources"]]

\* Research dicts handed to the critic: what research_topic returns on the
\* sample responses after a search with one hit and after an empty search,
\* and the critic's test sample.
ResearchDicts ==
    {research_topic(t, s, o).ret :
        t \in Topics,
        s \in {[key |-> TRUE, primary |-> Found(h), secondary |-> Down] :
                  h \in {<< >>, <<Hit(1)>>}},
        o \in ResearchSamples}
        \cup {SampleResearch}

----------------------------------------------------------------------------
\* The stage operations called one at a time

NoCall == [op |-> "none"]

CallCreatePlan ==
    /\ call = NoCall
    /\ \E prob \in Problems, out \in PlanOutcomes :
           call' = [op |-> "create_plan", problem |-> prob, out |-> out,
                    res |-> create_plan(prob, out)]
    /\ UNCHANGED pipeline_vars

NotInvoked == [ok |-> FALSE, text |-> << >>, invoked |-> FALSE]

\* The model outcome is drawn only when research_topic invokes the model.
CallResearchTopic ==
    /\ call = NoCall
    /\ \E topic \in Topics, s \in SearchCases :
           \E out \in IF search_web(topic, s) = << >> THEN {NotInvoked}
                      ELSE ResearchOutcomes :
               call' = [op |-> "research_topic", topic |-> topic,
                        search_results |-> search_web(topic, s), out |-> out,
                        res |-> research_topic(topic, s, out)]
    /\ UNCHANGED pipeline_vars

CallCritiqueResearch ==
    /\ call = NoCall
    /\ \E research \in ResearchDicts, out \in CritiqueOutcomes :
           call' = [op |-> "critique_research", research |-> research, out |-> out,
                    res |-> critique_research(research, out)]
    /\ UNCHANGED pipeline_vars

StageInit ==
    /\ call = NoCall
    /\ pc = "idle"
    /\ problem = << >>
    /\ plan = << >>
    /\ idx = 0
    /\ all_research = << >>
    /\ all_critiques = << >>
    /\ final_report = << >>
    /\ files = << >>
    /\ log = << >>

StageNext == CallCreatePlan \/ CallResearchTopic \/ CallCritiqueResearch

StageSpec == StageInit /\ [][StageNext]_vars

----------------------------------------------------------------------------
\* AutoAnalyst

\* TaskPlanner.display_plan: the exception it raises, "" when it returns.
\* It indexes problem and rationale of the plan and the five keys of every
\* subtask.
display_plan_exc(p) ==
    IF \E k \in {"problem", "rationale", "subtasks"} : k \notin DOMAIN p
    THEN "KeyError"
    ELSE IF \E i \in 1..Len(p["subtasks"].v) :
                \E k \in {"id", "task", "agent", "tools", "expected_output"} :
                    k \notin DOMAIN p["subtasks"].v[i]
         THEN "KeyError"
         ELSE ""

\* ResearchAgent.display_research: the exception it raises, "" when it
\* returns. It indexes seven keys of the record, category and points of
\* every finding, and title and credibility of the first three sources.
display_research_exc(research) ==
    IF \E k \in {"topic", "summary", "key_findings", "statistics", "sources",
                  "gaps", "next_steps"} : k \notin DOMAIN research
    THEN "KeyError"
    ELSE LET kf == research["key_findings"]
             src == research["sources"]
         IN  IF Truthy(kf) /\ kf.kind # "list" THEN "TypeError"
             ELSE IF Truthy(kf) /\ \E i \in 1..Len(kf.v) :
                        \E k \in {"category", "points"} : k \notin DOMAIN kf.v[i]
                  THEN "KeyError"
             ELSE IF Truthy(src) /\ src.kind # "list" THEN "TypeError"
             ELSE IF Truthy(src) /\ \E i \in 1..Len(Take(src.v, 3)) :
                        \E k \in {"title", "credibility"} : k \notin DOMAIN src.v[i]
                  THEN "KeyError"
                  ELSE ""

\* CriticAgent.display_critique: the exception it raises, "" when it
\* returns. Every access is a .get; it calls .get on the validation value
\* and .upper() on the confidence level.
display_critique_exc(critique) ==
    IF "validation" \in DOMAIN critique /\ Truthy(critique["validation"])
          /\ critique["validation"].kind # "obj"
    THEN "AttributeError"
    ELSE IF "confidence_level" \in DOMAIN critique
               /\ critique["confidence_level"].kind # "str"
         THEN "AttributeError"
         ELSE ""

\* a loop that researches every subtask
researched_any(task) == TRUE

\* a filter that leaves out the data scientist's subtasks
researched_two_labels(task) == task.agent \in {"researcher", "analyst"}

\* the filter of the research loop of AutoAnalyst.analyze
researched(task) == task.agent \in {"researcher", "analyst", "data_scientist"}

\* the item analyze appends to all_research
research_entry(task, research) ==
    [task_id |-> task.id, task_description |-> task.task, research |-> research]

\* the item analyze appends to all_critiques
critique_entry(item, critique) ==
    [task_id |-> item.task_id, critique |-> critique]

\* list.extend(research[key]) raises on a number: it is not iterable
extend_exc(research_items, key) ==
    IF \E i \in 1..Len(research_items) :
           /\ key \in DOMAIN research_items[i].research
           /\ research_items[i].research[key].kind = "num"
    THEN "TypeError" ELSE ""

\* a concatenation that takes the research items last to first
RECURSIVE combine_reversed(_, _)
combine_reversed(items, key) ==
    IF items = << >> THEN << >>
    ELSE combine_reversed(Tail(items), key)
             \o (IF key \in DOMAIN items[1].research
                 THEN items[1].research[key].v ELSE << >>)

\* the concatenation of the lists research[key] of the items that have one
RECURSIVE combine(_, _)
combine(items, key) ==
    IF items = << >> THEN << >>
    ELSE (IF key \in DOMAIN items[1].research THEN items[1].research[key].v ELSE << >>)
             \o combine(Tail(items), key)

\* the synthetic record of AutoAnalyst._generate_final_report
combined_research(prob, research_items) ==
    [topic |-> Str(<<"Comprehensive analysis: ">> \o prob),
     summary |-> Str(<<"Analysis combining ", NumStr(Len(research_items)),
                       " research tasks">>),
     key_findings |-> List(combine(research_items, "key_findings")),
     sources |-> List(combine(research_items, "sources"))]

insight_width == 150

max_insights == 5

\* key insights that keep the last five entries
extract_key_insights_last(research_items) ==
    LET has_summary(item) == "summary" \in DOMAIN item.research
        kept == SelectSeq(research_items, has_summary)
        insights == [i \in 1..Len(kept) |->
                        <<"Task ", NumStr(kept[i].task_id), ": ">>
                            \o Take(kept[i].research["summary"].v, insight_width)
                            \o <<"...">>]
    IN  IF Len(insights) <= max_insights THEN insights
        ELSE SubSeq(insights, Len(insights) - max_insights + 1, Len(insights))

\* AutoAnalyst._extract_key_insights
extract_key_insights(research_items) ==
    LET has_summary(item) == "summary" \in DOMAIN item.research
        kept == SelectSeq(research_items, has_summary)
        insights == [i \in 1..Len(kept) |->
                        <<"Task ", NumStr(kept[i].task_id), ": ">>
                            \o Take(kept[i].research["summary"].v, insight_width)
                            \o <<"...">>]
    IN  Take(insights, max_insights)

default_recommendations ==
    << <<"Conduct more targeted market research">>,
       <<"Validate findings with industry experts">>,
       <<"Analyze competitor offerings in detail">>,
       <<"Assess technical feasibility and costs">>,
       <<"Develop a minimum viable product (MVP) strategy">> >>

max_recommendations == 5

\* the recommendation lines of the plan: the subtasks that mention one
consider_lines(tasks) ==
    LET mentions(task) == \/ contains(lower(task.task), "recommend")
                          \/ contains(lower(task.task), "suggest")
        kept == SelectSeq(tasks, mentions)
    IN  [i \in 1..Len(kept) |-> <<"Consider: ">> \o kept[i].task]

\* the recommendation lines of the critiques
task_lines(critiques) ==
    LET recommends(item) == "recommendation" \in DOMAIN item.critique
        kept == SelectSeq(critiques, recommends)
    IN  [i \in 1..Len(kept) |->
            <<"Task ", NumStr(kept[i].task_id), ": ">>
                \o format(kept[i].critique["recommendation"])]

\* recommendations that put the lines of the critiques first
generate_recommendations_critiques_first(p, research_items, critiques) ==
    LET recommendations == task_lines(critiques) \o consider_lines(p["subtasks"].v)
    IN  Take(IF recommendations = << >> THEN default_recommendations
             ELSE recommendations, max_recommendations)

\* recommendations without the cap
generate_recommendations_uncapped(p, research_items, critiques) ==
    LET recommendations == consider_lines(p["subtasks"].v) \o task_lines(critiques)
    IN  IF recommendations = << >> THEN default_recommendations
        ELSE recommendations

\* AutoAnalyst._generate_recommendations
generate_recommendations(p, research_items, critiques) ==
    LET recommendations == consider_lines(p["subtasks"].v) \o task_lines(critiques)
    IN  Take(IF recommendations = << >> THEN default_recommendations
             ELSE recommendations, max_recommendations)

\* the expression of the report's top_recommendation
top_recommendation(recommendations) ==
    IF recommendations # << >> THEN recommendations[1]
    ELSE <<"No clear recommendation">>

default_next_steps ==
    << <<"Expand search to academic databases">>,
       <<"Conduct expert interviews">>,
       <<"Analyze regional market data">>,
       <<"Validate with user surveys">> >>

top_improvements == 2

max_next_steps == 5

\* the next steps of one critique: of its first two improvements, those
\* with priority high
high_priority_lines(critique) ==
    LET improvements == Get(critique, "improvements", List(<< >>)).v
        is_high(imp) == "priority" \in DOMAIN imp /\ imp.priority = "high"
        kept == SelectSeq(Take(improvements, top_improvements), is_high)
    IN  [i \in 1..Len(kept) |->
            <<"High priority: ">>
                \o (IF "suggestion" \in DOMAIN kept[i] THEN kept[i].suggestion
                    ELSE << >>)]

RECURSIVE next_step_lines(_)
next_step_lines(critiques) ==
    IF critiques = << >> THEN << >>
    ELSE high_priority_lines(critiques[1].critique)
             \o next_step_lines(Tail(critiques))

\* next steps that look for the high priority before they take the first two
RECURSIVE generate_next_steps_filter_first(_)
generate_next_steps_filter_first(critiques) ==
    LET is_high(imp) == "priority" \in DOMAIN imp /\ imp.priority = "high"
        lines(critique) ==
            LET kept == Take(SelectSeq(Get(critique, "improvements",
                                           List(<< >>)).v, is_high),
                             top_improvements)
            IN  [i \in 1..Len(kept) |-> <<"High priority: ">> \o kept[i].suggestion]
        RECURSIVE all(_)
        all(cs) == IF cs = << >> THEN << >>
                   ELSE lines(cs[1].critique) \o all(Tail(cs))
        next_steps == all(critiques)
    IN  Take(IF next_steps = << >> THEN default_next_steps ELSE next_steps,
             max_next_steps)

\* AutoAnalyst._generate_next_steps
generate_next_steps(critiques) ==
    LET next_steps == next_step_lines(critiques)
    IN  Take(IF next_steps = << >> THEN default_next_steps ELSE next_steps,
             max_next_steps)

\* a report whose scores are those of the first per-item critique
generate_final_report_by_first(prob, p, research_items, critiques, overall_critique) ==
    LET scored == IF critiques = << >> THEN overall_critique
                  ELSE critiques[1].critique
        recommendations == generate_recommendations(p, research_items, critiques)
    IN  [metadata |->
            [problem |-> prob,
             total_tasks |-> Len(p["subtasks"].v),
             research_tasks_completed |-> Len(research_items),
             critiques_generated |-> Len(critiques)],
         executive_summary |->
            [problem_statement |-> prob,
             key_insights |-> extract_key_insights(research_items),
             overall_quality_score |-> Get(scored, "overall_quality", Num(5)),
             confidence_level |-> Get(scored, "confidence_level", Str(<<"medium">>)),
             top_recommendation |-> top_recommendation(recommendations)],
         recommendations |-> recommendations,
         next_steps |-> generate_next_steps(critiques)]

\* AutoAnalyst._generate_final_report, given the overall critique (the
\* timestamp, the methodology and the critical assessment are left out)
generate_final_report(prob, p, research_items, critiques, overall_critique) ==
    LET recommendations == generate_recommendations(p, research_items, critiques)
    IN  [metadata |->
            [problem |-> prob,
             total_tasks |-> Len(p["subtasks"].v),
             research_tasks_completed |-> Len(research_items),
             critiques_generated |-> Len(critiques)],
         executive_summary |->
            [problem_statement |-> prob,
             key_insights |-> extract_key_insights(research_items),
             overall_quality_score |-> Get(overall_critique, "overall_quality", Num(5)),
             confidence_level |-> Get(overall_critique, "confidence_level",
                                      Str(<<"medium">>)),
             top_recommendation |-> top_recommendation(recommendations)],
         detailed_findings |->
            [i \in 1..Len(research_items) |->
                [task_id |-> research_items[i].task_id,
                 task |-> research_items[i].task_description,
                 research_summary |-> Get(research_items[i].research, "summary",
                                          Str(<< >>)),
                 key_points |-> Take(Get(research_items[i].research, "key_findings",
                                         List(<< >>)).v, 2)]],
         recommendations |-> recommendations,
         next_steps |-> generate_next_steps(critiques)]

\* Subtask lists the model may plan: none, three research steps, a research
\* step and a critic's, a step without an agent, and two steps with one id.
SubtaskLists ==
    { << >>,
      << Subtask(1, <<"Survey the market">>, "researcher", << >>, <<"Overview">>),
         Subtask(2, <<"Compare the vendors">>, "analyst", << >>, <<"Comparison">>),
         Subtask(3, <<"Estimate the demand">>, "data_scientist", << >>, <<"Estimate">>) >>,
      << Subtask(1, <<"Survey the market">>, "researcher", << >>, <<"Overview">>),
         Subtask(2, <<"Review the findings">>, "critic", << >>, <<"Review">>) >>,
      << [id |-> 1, task |-> <<"Survey the market">>] >>,
      << Subtask(1, <<"Survey the market">>, "researcher", << >>, <<"Overview">>),
         Subtask(1, <<"Compare the vendors">>, "analyst", << >>, <<"Comparison">>) >> }

\* Planning outcomes of each shape the run tells apart: prose only, a span
\* that does not deserialize, a failed invocation, and a complete plan with
\* each subtask list.
PlanSamples ==
    { Response(<<X>>), Response(<<LB, X, RB>>), Failure(<<X>>) }
        \cup {Response(<<LB, Mem("problem", Str(<<"Evaluate X">>)),
                         Mem("subtasks", List(l)),
                         Mem("rationale", Str(<<"Stepwise">>)), RB>>) :
                 l \in SubtaskLists}

\* Critique outcomes of each shape: a full critique, one without
\* overall_quality, one whose confidence level is a number, prose only, a
\* span that does not deserialize, and a failed invocation.
CritiqueSamples ==
    { Response(<<LB, Mem("overall_quality", Num(8)), Mems(CritiqueRest), RB>>),
      Response(<<LB, Mems(CritiqueRest), RB>>),
      Response(<<LB, Mem("overall_quality", Num(8)), Mems(CritiqueRest),
                 Mem("confidence_level", Num(3)), RB>>),
      Response(<<X>>),
      Response(<<LB, X, RB>>),
      Failure(<<X>>) }

\* The number of times create_plan calls self.llm: one call, outside any
\* loop.
create_plan_invocations(prob) == 1

\* a research_topic that invokes the model again when the first answer
\* does not deserialize
research_topic_invocations_retry(topic, s) ==
    IF search_web(topic, s) = << >> THEN 0 ELSE 2

\* The number of times research_topic calls self.llm: none when the
\* search returned nothing (the early return), one otherwise.
research_topic_invocations(topic, s) ==
    IF search_web(topic, s) = << >> THEN 0 ELSE 1

\* The number of times critique_research calls self.llm: one call
\* after _prepare_findings_summary, none when that raises.
critique_research_invocations(research) ==
    IF prepare_findings_summary_exc(research) # "" THEN 0 ELSE 1

\* one call of an agent by analyze, as the log keeps it: the operation, its
\* argument, the number of model invocations it made, and its result
Event(op, arg, model, res) == [op |-> op, arg |-> arg, model |-> model, res |-> res]

\* analyze, step 1: create_plan, then display_plan
PlanStep ==
    /\ pc = "plan"
    /\ \E out \in PlanSamples :
           LET res == create_plan(problem, out)
               p == res.ret
           IN  /\ plan' = p
               /\ log' = Append(log, Event("create_plan", [problem |-> problem],
                                               create_plan_invocations(problem), res))
               /\ IF display_plan_exc(p) # ""
                  THEN pc' = "raised" /\ idx' = idx
                  ELSE pc' = "research" /\ idx' = 1
    /\ UNCHANGED <<problem, all_research, all_critiques, final_report, files, call>>

\* analyze, step 2, one subtask the filter passes: research_topic, then
\* display_research, then the append
ResearchSubtask ==
    /\ pc = "research"
    /\ idx <= Len(plan["subtasks"].v)
    /\ researched(plan["subtasks"].v[idx])
    /\ LET task == plan["subtasks"].v[idx]
       IN  \E s \in SearchCases, out \in ResearchSamples \cup {Failure(<<X>>)} :
               LET res == research_topic(task.task, s, out)
                   research == res.ret
               IN  /\ log' = Append(log, Event("research_topic",
                                 [topic |-> task.task,
                                  search_results |-> search_web(task.task, s)],
                                 research_topic_invocations(task.task, s), res))
                   /\ IF display_research_exc(research) # ""
                      THEN pc' = "raised" /\ UNCHANGED <<idx, all_research>>
                      ELSE /\ all_research' = Append(all_research,
                                                     research_entry(task, research))
                           /\ idx' = idx + 1
                           /\ pc' = pc
    /\ UNCHANGED <<problem, plan, all_critiques, final_report, files, call>>

\* analyze, step 2, one subtask the filter drops
SkipSubtask ==
    /\ pc = "research"
    /\ idx <= Len(plan["subtasks"].v)
    /\ ~researched(plan["subtasks"].v[idx])
    /\ idx' = idx + 1
    /\ UNCHANGED <<pc, problem, plan, all_research, all_critiques, final_report,
                   files, log, call>>

\* analyze: the research loop ends and the critique loop begins
ResearchDone ==
    /\ pc = "research"
    /\ idx > Len(plan["subtasks"].v)
    /\ pc' = "critique"
    /\ idx' = 1
    /\ UNCHANGED <<problem, plan, all_research, all_critiques, final_report,
                   files, log, call>>

\* a critique loop that takes the research items last to first
CritiqueItemReversed ==
    /\ pc = "critique"
    /\ idx <= Len(all_research)
    /\ LET item == all_research[Len(all_research) + 1 - idx]
       IN  \E out \in CritiqueSamples :
               LET res == critique_research(item.research, out)
               IN  /\ log' = Append(log, Event("critique_research",
                                 [research |-> item.research],
                                 critique_research_invocations(item.research), res))
                   /\ IF res.exc # "" \/ display_critique_exc(res.ret) # ""
                      THEN pc' = "raised" /\ UNCHANGED <<idx, all_critiques>>
                      ELSE /\ all_critiques' = Append(all_critiques,
                                                      critique_entry(item, res.ret))
                           /\ idx' = idx + 1
                           /\ pc' = pc
    /\ UNCHANGED <<problem, plan, all_research, final_report, files, call>>

\* analyze, step 3, one research item: critique_research, then
\* display_critique, then the append
CritiqueItem ==
    /\ pc = "critique"
    /\ idx <= Len(all_research)
    /\ LET item == all_research[idx]
       IN  \E out \in CritiqueSamples :
               LET res == critique_research(item.research, out)
               IN  /\ log' = Append(log, Event("critique_research",
                                 [research |-> item.research],
                                 critique_research_invocations(item.research), res))
                   /\ IF res.exc # "" \/ display_critique_exc(res.ret) # ""
                      THEN pc' = "raised" /\ UNCHANGED <<idx, all_critiques>>
                      ELSE /\ all_critiques' = Append(all_critiques,
                                                      critique_entry(item, res.ret))
                           /\ idx' = idx + 1
                           /\ pc' = pc
    /\ UNCHANGED <<problem, plan, all_research, final_report, files, call>>

\* a report step that does not wait for the end of the critique loop
ReportStepEarly ==
    /\ pc = "critique"
    /\ IF extend_exc(all_research, "key_findings") # ""
          \/ extend_exc(all_research, "sources") # ""
       THEN pc' = "raised" /\ UNCHANGED <<final_report, log>>
       ELSE \E out \in CritiqueSamples :
           LET combined == combined_research(problem, all_research)
               res == critique_research(combined, out)
           IN  /\ log' = Append(log, Event("critique_research",
                                 [research |-> combined],
                                 critique_research_invocations(combined), res))
               /\ IF res.exc # ""
                  THEN pc' = "raised" /\ UNCHANGED final_report
                  ELSE /\ final_report' = generate_final_report(problem, plan,
                               all_research, all_critiques, res.ret)
                       /\ pc' = "save"
    /\ UNCHANGED <<problem, plan, idx, all_research, all_critiques, files, call>>

\* a report step whose combined record shares the key_findings list of the
\* first research item, so that extending it changes that item
ReportStepInPlace ==
    /\ pc = "critique"
    /\ idx > Len(all_research)
    /\ IF extend_exc(all_research, "key_findings") # ""
          \/ extend_exc(all_research, "sources") # ""
       THEN pc' = "raised" /\ UNCHANGED <<final_report, log, all_research>>
       ELSE \E out \in CritiqueSamples :
           LET combined == combined_research(problem, all_research)
               res == critique_research(combined, out)
           IN  /\ log' = Append(log, Event("critique_research",
                                 [research |-> combined],
                                 critique_research_invocations(combined), res))
               /\ all_research' =
                      IF all_research = << >> THEN all_research
                      ELSE [all_research EXCEPT ![1].research =
                               Put(@, "key_findings", combined["key_findings"])]
               /\ IF res.exc # ""
                  THEN pc' = "raised" /\ UNCHANGED final_report
                  ELSE /\ final_report' = generate_final_report(problem, plan,
                               all_research, all_critiques, res.ret)
                       /\ pc' = "save"
    /\ UNCHANGED <<problem, plan, idx, all_critiques, files, call>>

\* analyze, step 4: _generate_final_report, which combines the research
\* items, runs the overall critique and assembles the report
ReportStep ==
    /\ pc = "critique"
    /\ idx > Len(all_research)
    /\ IF extend_exc(all_research, "key_findings") # ""
          \/ extend_exc(all_research, "sources") # ""
       THEN pc' = "raised" /\ UNCHANGED <<final_report, log>>
       ELSE \E out \in CritiqueSamples :
           LET combined == combined_research(problem, all_research)
               res == critique_research(combined, out)
           IN  /\ log' = Append(log, Event("critique_research",
                                 [research |-> combined],
                                 critique_research_invocations(combined), res))
               /\ IF res.exc # ""
                  THEN pc' = "raised" /\ UNCHANGED final_report
                  ELSE /\ final_report' = generate_final_report(problem, plan,
                               all_research, all_critiques, res.ret)
                       /\ pc' = "save"
    /\ UNCHANGED <<problem, plan, idx, all_research, all_critiques, files, call>>

slug_width == 50

\* The characters of the problem statements the runs are given.
Spelling(chunk) ==
    CASE chunk = "Evaluate X" ->
             <<"E", "v", "a", "l", "u", "a", "t", "e", " ", "X">>
      [] chunk = "Rent/buy X?" ->
             <<"R", "e", "n", "t", "/", "b", "u", "y", " ", "X", "?">>

RECURSIVE characters(_)
characters(text) ==
    IF text = << >> THEN << >>
    ELSE Spelling(Head(text)) \o characters(Tail(text))

\* problem[:50].replace(" ", "_").replace("?", "").replace(".", "") on a
\* problem given character by character
safe_problem(chars) ==
    LET cut == Take(chars, slug_width)
        underscored == [i \in 1..Len(cut) |-> IF cut[i] = " " THEN "_" ELSE cut[i]]
        kept(c) == c \notin {"?", "."}
    IN  SelectSeq(underscored, kept)

\* the names of the components dict of _save_analysis, in its order
components == <<"plan", "research", "critiques", "final_report">>

\* outputs/{timestamp}_{safe_problem}_{name}.{ext}, and whether the write
\* of its content ran to its end
File(timestamp, slug, name, ext, complete) ==
    [timestamp |-> timestamp, slug |-> slug, name |-> name, ext |-> ext,
     complete |-> complete]

\* a save that leaves out the text summary
save_analysis_json_only(chars, report, timestamp) ==
    [exc |-> "",
     files |-> [i \in 1..Len(components) |->
                   File(timestamp, safe_problem(chars), components[i], "json", TRUE)]]

\* AutoAnalyst._save_analysis: the exception it raises ("" when it returns)
\* and the files it leaves under outputs/. A "/" in the slug names a
\* directory that does not exist, so the first open raises; .upper() on a
\* confidence level that is not a string raises inside the with block of
\* the summary, after the four JSON files are closed.
save_analysis(chars, report, timestamp) ==
    LET slug == safe_problem(chars)
        json == [i \in 1..Len(components) |->
                    File(timestamp, slug, components[i], "json", TRUE)]
    IN  IF \E i \in 1..Len(slug) : slug[i] = "/"
        THEN [exc |-> "FileNotFoundError", files |-> << >>]
        ELSE IF report.executive_summary.confidence_level.kind # "str"
        THEN [exc |-> "AttributeError",
              files |-> Append(json, File(timestamp, slug, "summary", "txt", FALSE))]
        ELSE [exc |-> "",
              files |-> Append(json, File(timestamp, slug, "summary", "txt", TRUE))]

\* What datetime.now().strftime("%Y%m%d_%H%M%S") may return.
Stamps == { "20240101_120000", "20240101_120001" }

\* analyze: _save_analysis, then the return
SaveStep ==
    /\ pc = "save"
    /\ \E timestamp \in Stamps :
           LET res == save_analysis(characters(problem), final_report, timestamp)
           IN  /\ files' = res.files
               /\ pc' = IF res.exc # "" THEN "raised" ELSE "done"
    /\ UNCHANGED <<problem, plan, idx, all_research, all_critiques, final_report,
                   log, call>>

\* MockAutoAnalyst.analyze, step 2: one research item for every subtask of
\* the plan, whatever its agent label. Of the mock research record only the
\* topic is kept.
mock_research_items(p) ==
    [i \in 1..Len(p["subtasks"].v) |->
        LET task == p["subtasks"].v[i]
        IN  [task_id |-> task.id, task_description |-> task.task,
             research |-> [topic |-> Str(task.task)]]]

\* MockAutoAnalyst.analyze, step 3: one critique for every research item.
\* Of the mock critique only the topic is kept.
mock_critiques(research_items) ==
    [i \in 1..Len(research_items) |->
        [task_id |-> research_items[i].task_id,
         critique |-> [topic |-> Get(research_items[i].research, "topic",
                                     Str(<<"Unknown">>))]]]

\* The problems analyze is run on: the one of the stage calls and one with
\* a slash and a question mark.
RunProblems == Problems \cup { <<"Rent/buy X?">> }

Init ==
    /\ pc = "plan"
    /\ problem \in RunProblems
    /\ plan = << >>
    /\ idx = 0
    /\ all_research = << >>
    /\ all_critiques = << >>
    /\ final_report = << >>
    /\ files = << >>
    /\ log = << >>
    /\ call = NoCall

Next ==
    \/ PlanStep
    \/ ResearchSubtask
    \/ SkipSubtask
    \/ ResearchDone
    \/ CritiqueItem
    \/ ReportStep
    \/ SaveStep

Spec == Init /\ [][Next]_vars

----------------------------------------------------------------------------
\* The helpers of the report and of the search called one at a time, on
\* the values analyze and research_topic hand them

\* bounds of the helper inputs
MaxWords == 17          \* words of a search query
MaxTasks == 3           \* subtasks of a plan, critiques of a run
MaxImprovements == 3    \* improvements of a critique
MaxItems == 6           \* research items of a run

\* words a query may have besides its filler words: the two years the
\* optimizer looks for, another year, and a product code
SpecialWords == {"2023", "2024", "2019", "sku120245"}

Filler(n) == [i \in 1..n |-> Word("word", i)]

\* queries of every length, without a special word or with one somewhere
Queries ==
    {Filler(n) : n \in 1..MaxWords}
        \cup {[Filler(na[1]) EXCEPT ![na[2]] = Word(y, na[2])] :
                 na \in {x \in (1..MaxWords) \X (1..MaxWords) : x[2] <= x[1]},
                 y \in SpecialWords}

\* task texts without and with a mention of a recommendation, in lower and
\* in upper case
TaskTexts == { <<"Survey the market">>, <<"Recommend a vendor">>,
               <<"SUGGEST a price">> }

HelperPlans ==
    {[problem |-> Str(<<"Evaluate X">>),
      subtasks |-> List([i \in 1..Len(text) |->
                            Subtask(i, text[i], "researcher", << >>, <<"Overview">>)]),
      rationale |-> Str(<<"Stepwise">>)] :
        text \in UNION {[1..n -> TaskTexts] : n \in 0..MaxTasks}}

\* the improvement the critic's answer has at a position
Improvement(c, i, priority) ==
    [area |-> <<"Scope">>,
     suggestion |-> <<"Suggestion ", NumStr(c), ".", NumStr(i)>>,
     priority |-> priority]

\* what the model answers about improvements and recommendation in a
\* critique: a list of priorities, or no improvements member at all
CritiqueShapes ==
    [improvements : BOOLEAN, recommendation : BOOLEAN,
     priorities : UNION {[1..k -> {"high", "medium"}] : k \in 0..MaxImprovements}]

\* the critique the critic returns for the c-th research item on an answer
\* of the given shape
ShapedCritique(c, shape) ==
    LET imps == IF shape.improvements
                THEN <<Mem("improvements",
                           List([i \in 1..Len(shape.priorities) |->
                                    Improvement(c, i, shape.priorities[i])]))>>
                ELSE << >>
        rec == IF shape.recommendation
               THEN <<Mem("recommendation", Str(<<"Proceed ", NumStr(c)>>))>>
               ELSE << >>
    IN  critique_research(SampleResearch,
                          Response(<<LB, Mem("overall_quality", Num(8))>>
                                       \o imps \o rec \o <<RB>>)).ret

\* the all_critiques of a run whose critiques have the given shapes
ShapedCritiques(shapes) ==
    [c \in 1..Len(shapes) |-> critique_entry([task_id |-> c], ShapedCritique(c, shapes[c]))]

\* shapes that differ in the recommendation only
RecommendationShapes ==
    {sh \in CritiqueShapes : ~sh.improvements /\ sh.priorities = << >>}

\* shapes that differ in the improvements only
ImprovementShapes ==
    {sh \in CritiqueShapes :
        /\ ~sh.recommendation
        /\ ~sh.improvements => sh.priorities = << >>}

\* a summary of n characters
Chars(n) == [i \in 1..n |-> NumStr(i % 10)]

SummaryLengths == {3, insight_width, insight_width + 1}

\* the all_research of a run whose summaries have the given lengths: each
\* record passed display_research, so it has a summary
SummarizedItems(lengths) ==
    [i \in 1..Len(lengths) |->
        research_entry([id |-> i, task |-> <<"Survey the market">>],
                       Put(Put(ResearchRest, "summary", Str(Chars(lengths[i]))),
                           "raw_results", List(<<Hit(1)>>)))]

CallOptimizeQuery ==
    /\ call = NoCall
    /\ \E query \in Queries :
           call' = [op |-> "optimize_query", query |-> query,
                    res |-> optimize_query(query)]
    /\ UNCHANGED pipeline_vars

CallSearchWeb ==
    /\ call = NoCall
    /\ \E query \in Queries, s \in SearchCases :
           call' = [op |-> "search_web", query |-> query, s |-> s,
                    sent |-> search_requests(query, s),
                    res |-> search_web(query, s)]
    /\ UNCHANGED pipeline_vars

CallGenerateRecommendations ==
    /\ call = NoCall
    /\ \E p \in HelperPlans :
       \E shapes \in UNION {[1..n -> RecommendationShapes] : n \in 0..MaxTasks} :
           LET critiques == ShapedCritiques(shapes)
               res == generate_recommendations(p, << >>, critiques)
           IN  call' = [op |-> "generate_recommendations", plan |-> p,
                        critiques |-> critiques, res |-> res,
                        top |-> top_recommendation(res)]
    /\ UNCHANGED pipeline_vars

CallGenerateNextSteps ==
    /\ call = NoCall
    /\ \E shapes \in UNION {[1..n -> ImprovementShapes] : n \in 0..MaxTasks} :
           LET critiques == ShapedCritiques(shapes)
           IN  call' = [op |-> "generate_next_steps", critiques |-> critiques,
                        res |-> generate_next_steps(critiques)]
    /\ UNCHANGED pipeline_vars

CallExtractKeyInsights ==
    /\ call = NoCall
    /\ \E lengths \in UNION {[1..n -> SummaryLengths] : n \in 0..MaxItems} :
           LET research_items == SummarizedItems(lengths)
           IN  call' = [op |-> "extract_key_insights",
                        research_items |-> research_items,
                        res |-> extract_key_insights(research_items)]
    /\ UNCHANGED pipeline_vars

MaxChars == 52

\* the characters _save_analysis treats specially, the slash, and a letter
SlugChars == {" ", "?", ".", "/", "a"}

\* Problem texts of every length up to MaxChars, of letters with at most
\* one other character.
ProblemTexts ==
    {[i \in 1..n |-> IF i = p THEN c ELSE "a"] :
        n \in 0..MaxChars, p \in 1..MaxChars, c \in SlugChars}

CallSafeProblem ==
    /\ call = NoCall
    /\ \E chars \in ProblemTexts :
           call' = [op |-> "safe_problem", chars |-> chars,
                    res |-> safe_problem(chars)]
    /\ UNCHANGED pipeline_vars

HelperNext ==
    \/ CallSafeProblem
    \/ CallOptimizeQuery
    \/ CallSearchWeb
    \/ CallGenerateRecommendations
    \/ CallGenerateNextSteps
    \/ CallExtractKeyInsights

HelperSpec == StageInit /\ [][HelperNext]_vars

----------------------------------------------------------------------------
\* Vocabulary of the stage claims

Called == call # NoCall

\* the model was invoked during the call, and what generate returned
Invoked == Called /\ call.out # NotInvoked

ModelFailed == Invoked /\ ~call.out.ok

RawText == generate(call.out)

\* some '{' of the text is followed at a later position by a '}'
HasBracePair(text) ==
    \E i \in 1..Len(text) : \E j \in (i + 1)..Len(text) : text[i] = LB /\ text[j] = RB

\* what the stage's extractor returns on the raw text of the call
Extracted ==
    CASE call.op = "create_plan" -> planner_extract_json(RawText)
      [] call.op = "research_topic" -> researcher_extract_json(RawText)
      [] call.op = "critique_research" -> critic_extract_json(RawText)

\* the record the stage's extractor serializes when it finds no span, as the
\* stage returns it (the research and critique stages add their metadata)
CannedRecord ==
    CASE call.op = "create_plan" -> planner_canned
      [] call.op = "research_topic" ->
            Put(researcher_canned, "raw_results", List(call.search_results))
      [] call.op = "critique_research" ->
            Put(Put(critic_canned, "research_topic",
                    Get(call.research, "topic", Str(<< >>))),
                "original_research_summary", Get(call.research, "summary", Str(<< >>)))

\* the record the stage's except handler builds
DefaultRecord ==
    CASE call.op = "create_plan" -> create_default_plan(call.problem)
      [] call.op = "research_topic" ->
            create_basic_research(call.topic, call.search_results)
      [] call.op = "critique_research" -> create_default_critique(call.research)

\* top-level fields of each record type
PlanFields == {"problem", "subtasks", "rationale"}

ResearchFields == {"topic", "summary", "key_findings", "statistics", "sources",
                   "gaps", "next_steps", "raw_results"}

CritiqueFields == {"topic", "validation", "critique", "improvements",
                   "overall_quality", "confidence_level", "recommendation"}

----------------------------------------------------------------------------
\* C2: no stage operation raises outward: create_plan, research_topic and
\* critique_research return a record on every model output, search outcome
\* and input record.
C2_NoStageRaises == Called => call.res.exc = ""

----------------------------------------------------------------------------
\* C6 as stated: on a raw text without a '{' followed later by a '}' the
\* extractor returns no record text (nothing that deserializes).
C6_NoSpanNoRecordText ==
    (Invoked /\ ~HasBracePair(RawText)) => ~loads_ok(Extracted)

\* C6 amended: on a raw text without a '{' followed later by a '}' the
\* extractor signals nothing: it returns the serialization of its stage's
\* canned dict, whatever the raw text, and that text deserializes to the
\* canned dict.
C6_NoSpanCannedText ==
    (Invoked /\ ~HasBracePair(RawText)) =>
        LET e == Extracted
            parsed == loads(e)
            canned == CannedRecord
        IN  /\ Len(e) = 3
            /\ e[1] = LB /\ e[3] = RB
            /\ e[2].c = "m"
            /\ parsed.exc = ""
            /\ \A k \in DOMAIN parsed.ret : parsed.ret[k] = canned[k]
            /\ DOMAIN canned \ DOMAIN parsed.ret
                  \subseteq {"raw_results", "research_topic", "original_research_summary"}

\* a text that has both braces, every '}' before every '{'
C6_Witness ==
    /\ Invoked /\ call.out.ok
    /\ ~HasBracePair(RawText)
    /\ find(RawText, LB) >= 0
    /\ find(RawText, RB) >= 0

----------------------------------------------------------------------------
\* C7: when the first '{' precedes the last '}', the extracted span is the
\* text from the first '{' through the last '}' inclusive, with no brace
\* balancing; and when that span does not deserialize the stage returns its
\* default record, never a record parsed from a shorter sub-span.
C7_FirstToLastSpan ==
    (Invoked /\ HasBracePair(RawText)) =>
        LET text == RawText
            e == Extracted
        IN  /\ \E i \in 1..Len(text) : \E j \in i..Len(text) :
                   /\ e = SubSeq(text, i, j)
                   /\ text[i] = LB /\ text[j] = RB
                   /\ \A k \in 1..(i - 1) : text[k] # LB
                   /\ \A k \in (j + 1)..Len(text) : text[k] # RB
            /\ (~loads_ok(e) /\ call.res.exc = "") => call.res.ret = DefaultRecord

\* the span does not deserialize although a shorter sub-span of it does
C7_Witness ==
    /\ Invoked /\ HasBracePair(RawText)
    /\ ~loads_ok(Extracted)
    /\ call.res.exc = "" /\ call.res.ret = DefaultRecord
    /\ \E i \in 1..Len(RawText) : \E j \in i..Len(RawText) :
           /\ loads_ok(SubSeq(RawText, i, j))
           /\ Len(SubSeq(RawText, i, j)) < Len(Extracted)

----------------------------------------------------------------------------
\* C8 as stated: plan validation checks presence only, so a deserialized
\* plan with the keys problem, subtasks and rationale is accepted whatever
\* the types of their values.
C8_PresenceOnly ==
    (call.op = "create_plan" /\ loads_ok(Extracted)) =>
        (PlanFields \subseteq DOMAIN loads_dict(Extracted)
            => call.res.ret = loads_dict(Extracted))

\* C8 amended: a deserialized plan with the three keys is accepted exactly
\* when its subtasks value is a list, whatever the types of problem and
\* rationale; a plan that misses one of the three keys, or whose subtasks is
\* not a list, is replaced by the default plan.
C8_PresenceAndListSubtasks ==
    (call.op = "create_plan" /\ loads_ok(Extracted)) =>
        LET p == loads_dict(Extracted)
            accepted == PlanFields \subseteq DOMAIN p /\ p["subtasks"].kind = "list"
        IN  /\ accepted => call.res.ret = p
            /\ ~accepted => call.res.ret = create_default_plan(call.problem)

\* a plan is accepted although its rationale is not a string
C8_Witness ==
    /\ call.op = "create_plan" /\ call.out.ok
    /\ loads_ok(Extracted)
    /\ call.res.ret = loads_dict(Extracted)
    /\ call.res.ret["rationale"].kind # "str"
    /\ call.res.ret # create_default_plan(call.problem)

----------------------------------------------------------------------------
----------------------------------------------------------------------------
\* the call took a path that ends in a record the stage made up itself
FallbackTaken ==
    /\ Called /\ call.res.exc = ""
    /\ \/ ~Invoked
       \/ ~HasBracePair(RawText)
       \/ ~loads_ok(Extracted)
       \/ call.op = "create_plan" /\ validate_plan(loads_dict(Extracted)).exc # ""

\* C10: every fallback record a stage produces passes that stage's
\* validation: the plan fallbacks satisfy _validate_plan, and the research
\* and critique fallbacks have every top-level field of their record type.
C10_FallbacksValid ==
    FallbackTaken =>
        CASE call.op = "create_plan" -> validate_plan(call.res.ret).exc = ""
          [] call.op = "research_topic" -> ResearchFields \subseteq DOMAIN call.res.ret
          [] call.op = "critique_research" -> CritiqueFields \subseteq DOMAIN call.res.ret

\* the research stage falls back to the basic record built from the hits
C10_Witness ==
    /\ FallbackTaken
    /\ call.op = "research_topic" /\ Invoked
    /\ HasBracePair(RawText) /\ ~loads_ok(Extracted)
    /\ call.res.ret = DefaultRecord

----------------------------------------------------------------------------
\* the stage operation of the call on the same context with another outcome
SameCall(out) ==
    CASE call.op = "create_plan" -> create_plan(call.problem, out)
      [] call.op = "research_topic" ->
            research_topic(call.topic,
                           [key |-> TRUE, primary |-> Found(call.search_results),
                            secondary |-> Down], out)
      [] call.op = "critique_research" -> critique_research(call.research, out)

\* one outcome of each failure kind: a failed invocation, a response without
\* a brace span, a span that does not deserialize, and (for a plan) a record
\* that fails validation
FailureKinds ==
    { Failure(<<X>>), Response(<<X>>), Response(<<LB, X, RB>>) }
        \cup IF call.op = "create_plan"
             THEN {Response(<<LB, Mem("problem", Str(<<"Evaluate X">>)), RB>>)}
             ELSE {}

IsFailureKind ==
    \/ ModelFailed
    \/ ~HasBracePair(RawText)
    \/ ~loads_ok(Extracted)
    \/ call.op = "create_plan" /\ validate_plan(loads_dict(Extracted)).exc # ""

----------------------------------------------------------------------------
\* C5: when the model invocation fails the stage returns a fallback record
\* of its own; the text of the failure is never extracted from, parsed and
\* returned as the stage's record.
C5_FailureNeverParsed ==
    (ModelFailed /\ call.res.exc = "") => call.res.ret \in {DefaultRecord, CannedRecord}

----------------------------------------------------------------------------
\* Vocabulary of the run claims

\* the ids of a list of subtasks, research items or critiques
TaskIds(items) == [i \in 1..Len(items) |-> items[i].task_id]

\* the ids of the subtasks the research loop keeps, in plan order
RECURSIVE ResearchedIds(_)
ResearchedIds(tasks) ==
    IF tasks = << >> THEN << >>
    ELSE (IF tasks[1].agent \in {"researcher", "analyst", "data_scientist"}
          THEN <<tasks[1].id>> ELSE << >>) \o ResearchedIds(Tail(tasks))

\* the subtasks the research loop has gone through
Visited ==
    IF pc = "research" THEN Take(plan["subtasks"].v, idx - 1) ELSE plan["subtasks"].v

\* the stage gave up on the model's answer for this research item
FellBack(item) ==
    \E h \in HitLists :
        \/ item.research = create_basic_research(item.task_description, h)
        \/ item.research = Put(researcher_canned, "raw_results", List(h))

----------------------------------------------------------------------------
\* C1 as stated: a plan with n subtasks gives exactly n research items and
\* n critiques, whatever the agent labels of the subtasks.
C1_OnePerSubtask ==
    pc \in {"save", "done"} =>
        /\ Len(all_research) = Len(plan["subtasks"].v)
        /\ Len(all_critiques) = Len(plan["subtasks"].v)

\* C1 amended: analyze produces one research item and one critique for each
\* subtask whose agent label is researcher, analyst or data_scientist, and
\* none for any other subtask; each carries the id of its subtask, also
\* when the research of a subtask falls back. A plan with n subtasks gives
\* n items only when all n labels are among the three.
C1_OnePerResearchedSubtask ==
    /\ pc \in {"research", "critique", "save", "done"} =>
          /\ TaskIds(all_research) = ResearchedIds(Visited)
          /\ TaskIds(all_critiques) = Take(TaskIds(all_research), Len(all_critiques))
    /\ pc \in {"save", "done"} =>
          /\ TaskIds(all_research) = ResearchedIds(plan["subtasks"].v)
          /\ TaskIds(all_critiques) = TaskIds(all_research)

\* a finished run on the default plan: three subtasks, the third a critic's;
\* the first research parsed, the second fell back, and both were critiqued
C1_Witness ==
    /\ pc = "done"
    /\ Len(plan["subtasks"].v) = 3
    /\ plan["subtasks"].v[3].agent = "critic"
    /\ Len(all_research) = 2
    /\ ~FellBack(all_research[1])
    /\ all_research[1].research["raw_results"].v # << >>
    /\ FellBack(all_research[2])
    /\ TaskIds(all_critiques) = <<1, 2>>

----------------------------------------------------------------------------
\* C3: a started run reaches the report stage and returns its report; it
\* never ends in an exception, whatever the model and the search return.
C3_RunNeverRaises == pc # "raised"

----------------------------------------------------------------------------
\* Vocabulary of the order claims

\* a is a subsequence of b
RECURSIVE IsSubsequence(_, _)
IsSubsequence(a, b) ==
    IF a = << >> THEN TRUE
    ELSE IF b = << >> THEN FALSE
    ELSE IF a[1] = b[1] THEN IsSubsequence(Tail(a), Tail(b))
    ELSE IsSubsequence(a, Tail(b))

PlanIds == [i \in 1..Len(plan["subtasks"].v) |-> plan["subtasks"].v[i].id]

Returning == pc \in {"save", "done"}

\* the calls of one agent, in the order analyze made them
CallsOf(op) == LET made(e) == e.op = op IN SelectSeq(log, made)

CriticCalls == CallsOf("critique_research")

\* the critique of the combined record, once the report is assembled
OverallCritique == log[Len(log)].res.ret

RECURSIVE Flatten(_)
Flatten(lists) == IF lists = << >> THEN << >> ELSE lists[1] \o Flatten(Tail(lists))

\* the lists the research items have under a key, in research order
FieldLists(key) == [i \in 1..Len(all_research) |-> all_research[i].research[key].v]

----------------------------------------------------------------------------
\* C11: research items are in the plan's subtask order and critiques are in
\* research order: the i-th critique has the task_id of the i-th research
\* item, a run that returns has a critique for every research item, and the
\* task_ids of the research items are a subsequence of the plan's subtask
\* ids in plan order.
C11_OrderPreserved ==
    /\ Len(all_critiques) <= Len(all_research)
    /\ \A i \in 1..Len(all_critiques) :
           all_critiques[i].task_id = all_research[i].task_id
    /\ Returning => Len(all_critiques) = Len(all_research)
    /\ pc # "plan" /\ display_plan_exc(plan) = "" =>
           IsSubsequence(TaskIds(all_research), PlanIds)

\* a returned run on a plan of three research subtasks: three research
\* items and three critiques, numbered as the subtasks
C11_Witness ==
    /\ pc = "done"
    /\ PlanIds = <<1, 2, 3>>
    /\ TaskIds(all_research) = <<1, 2, 3>>
    /\ \A i \in 1..3 :
           /\ all_critiques[i].task_id = i
           /\ all_critiques[i].critique["original_research_summary"]
                  = all_research[i].research["summary"]

----------------------------------------------------------------------------
\* C12: the run goes PLAN, RESEARCH*, CRITIQUE*, REPORT without
\* interleaving: the planner is called exactly once and first, no research
\* call follows a critic call, and the report is assembled only after every
\* research item has its critique, the last call being the critic's.
C12_StagesInOrder ==
    /\ pc # "plan" <=> log # << >>
    /\ \A i \in 1..Len(log) : log[i].op = "create_plan" <=> i = 1
    /\ \A i \in 1..Len(log) : \A j \in (i + 1)..Len(log) :
           log[i].op = "critique_research" => log[j].op = "critique_research"
    /\ Len(CriticCalls) > 0 =>
           Len(CallsOf("research_topic")) = Len(all_research)
    /\ final_report # << >> =>
           /\ Len(all_critiques) = Len(all_research)
           /\ Len(log) = 1 + 2 * Len(all_research) + 1
           /\ log[Len(log)].op = "critique_research"

\* a returned run whose log is the planner, two research calls, two
\* critiques and the overall critique
C12_Witness ==
    /\ pc = "done"
    /\ [i \in 1..Len(log) |-> log[i].op]
           = <<"create_plan", "research_topic", "research_topic",
               "critique_research", "critique_research", "critique_research">>

----------------------------------------------------------------------------
\* C13: after the per-item critiques exactly one further critique is run,
\* on a record whose key_findings and sources are the concatenation, in
\* research order, of those of every research item: a run that returns with
\* k research items has called the critic k+1 times, first on the k items.
C13_OneOverallCritique ==
    /\ Len(CriticCalls) <= Len(all_research) + 1
    /\ Returning =>
          /\ Len(CriticCalls) = Len(all_research) + 1
          /\ \A i \in 1..Len(all_research) :
                 CriticCalls[i].arg.research = all_research[i].research
          /\ LET synthetic == CriticCalls[Len(all_research) + 1].arg.research
             IN  /\ synthetic["key_findings"] = List(Flatten(FieldLists("key_findings")))
                 /\ synthetic["sources"] = List(Flatten(FieldLists("sources")))

\* a returned run of two research items with different findings and
\* sources: the model's for the first, the search hits for the second
C13_Witness ==
    /\ pc = "done"
    /\ Len(all_research) = 2
    /\ all_research[1].research["key_findings"] = List(<<GoodFinding>>)
    /\ all_research[2].research["key_findings"].v # << >>
    /\ all_research[2].research["key_findings"].v[1].category = <<"Raw Search Results">>
    /\ all_research[2].research["sources"].v # << >>
    /\ Len(CriticCalls) = 3

----------------------------------------------------------------------------
----------------------------------------------------------------------------
\* Vocabulary of the helper claims

HelperCalled(op) == call # NoCall /\ call.op = op

\* the subtask text mentions a recommendation, in whatever case
Mentions(task) ==
    \E needle \in {"recommend", "suggest"} : contains(lower(task.task), needle)

\* the 'Consider: <task text>' lines of the subtasks that mention one
RECURSIVE ConsiderLines(_)
ConsiderLines(tasks) ==
    IF tasks = << >> THEN << >>
    ELSE (IF Mentions(tasks[1]) THEN << <<"Consider: ">> \o tasks[1].task >> ELSE << >>)
             \o ConsiderLines(Tail(tasks))

\* the 'Task <id>: <recommendation>' lines of the critiques that have one
RECURSIVE TaskLines(_)
TaskLines(critiques) ==
    IF critiques = << >> THEN << >>
    ELSE (IF "recommendation" \in DOMAIN critiques[1].critique
          THEN << <<"Task ", NumStr(critiques[1].task_id), ": ">>
                      \o critiques[1].critique["recommendation"].v >>
          ELSE << >>)
             \o TaskLines(Tail(critiques))

Min(a, b) == IF a < b THEN a ELSE b

----------------------------------------------------------------------------
\* C15: the recommendations list has at most 5 entries, and when no subtask
\* text contains 'recommend' or 'suggest' (in whatever case) and no critique
\* carries a recommendation it is the fixed 5-item default list, verbatim.
C15_RecommendationsCapped ==
    HelperCalled("generate_recommendations") =>
        /\ Len(call.res) <= 5
        /\ (/\ \A i \in 1..Len(call.plan["subtasks"].v) :
                   ~Mentions(call.plan["subtasks"].v[i])
            /\ \A i \in 1..Len(call.critiques) :
                   "recommendation" \notin DOMAIN call.critiques[i].critique)
           => call.res = << <<"Conduct more targeted market research">>,
                            <<"Validate findings with industry experts">>,
                            <<"Analyze competitor offerings in detail">>,
                            <<"Assess technical feasibility and costs">>,
                            <<"Develop a minimum viable product (MVP) strategy">> >>

\* three subtasks that mention a recommendation and three critiques that
\* carry one: six lines, of which the report keeps five
C15_Witness ==
    /\ HelperCalled("generate_recommendations")
    /\ Len(ConsiderLines(call.plan["subtasks"].v)) = 3
    /\ Len(TaskLines(call.critiques)) = 3
    /\ Len(call.res) = 5
    /\ call.res[5] = <<"Task ", "2", ": ", "Proceed ", "2">>

----------------------------------------------------------------------------
\* C16: the recommendation list is the 'Consider: <task text>' lines of the
\* subtasks whose text contains 'recommend' or 'suggest' in whatever case,
\* in plan order, then the 'Task <id>: <recommendation>' lines of the
\* critiques that have a recommendation, in critique order, cut to 5;
\* top_recommendation is the first entry of the list after the cut.
C16_RecommendationOrder ==
    HelperCalled("generate_recommendations") =>
        LET built == ConsiderLines(call.plan["subtasks"].v) \o TaskLines(call.critiques)
        IN  /\ built # << >> => call.res = SubSeq(built, 1, Min(5, Len(built)))
            /\ call.res # << >>
            /\ call.top = call.res[1]

\* a plan whose second subtask says SUGGEST, and two critiques of which the
\* second recommends: the subtask's line comes first and is the top one
C16_Witness ==
    /\ HelperCalled("generate_recommendations")
    /\ Len(call.plan["subtasks"].v) = 2
    /\ call.plan["subtasks"].v[1].task = <<"Survey the market">>
    /\ call.plan["subtasks"].v[2].task = <<"SUGGEST a price">>
    /\ call.res = << <<"Consider: ", "SUGGEST a price">>,
                     <<"Task ", "2", ": ", "Proceed ", "2">> >>
    /\ call.top = <<"Consider: ", "SUGGEST a price">>

----------------------------------------------------------------------------
\* the improvements of a critique item
Improvements(item) ==
    IF "improvements" \in DOMAIN item.critique THEN item.critique["improvements"].v
    ELSE << >>

IsHigh(imp) == "priority" \in DOMAIN imp /\ imp.priority = "high"

\* the 'High priority: <suggestion>' lines of the improvements with
\* priority high among the first n improvements of each critique
RECURSIVE HighLines(_, _)
HighLines(critiques, n) ==
    IF critiques = << >> THEN << >>
    ELSE LET first == SubSeq(Improvements(critiques[1]), 1,
                             Min(n, Len(Improvements(critiques[1]))))
             high == SelectSeq(first, IsHigh)
         IN  [i \in 1..Len(high) |-> <<"High priority: ">> \o high[i].suggestion]
                 \o HighLines(Tail(critiques), n)

DefaultNextSteps ==
    << <<"Expand search to academic databases">>,
       <<"Conduct expert interviews">>,
       <<"Analyze regional market data">>,
       <<"Validate with user surveys">> >>

\* C17 as stated: next_steps has at most 5 entries, at most 2 from each
\* critique, and is the fixed 4-item default list exactly when no critique
\* has any improvement with priority 'high'.
C17_DefaultIffNoHigh ==
    HelperCalled("generate_next_steps") =>
        /\ Len(call.res) <= 5
        /\ call.res = DefaultNextSteps
               <=> \A c \in 1..Len(call.critiques) :
                       \A i \in 1..Len(Improvements(call.critiques[c])) :
                           ~IsHigh(Improvements(call.critiques[c])[i])

\* C17 amended: next_steps lists 'High priority: <suggestion>' for the
\* improvements with priority 'high' among the first 2 improvements of each
\* critique, in critique order, at most 5 in total; the fixed 4-item
\* default list is used exactly when no critique has an improvement with
\* priority 'high' among its first 2, whatever the priority of its later
\* improvements.
C17_HighAmongFirstTwo ==
    HelperCalled("generate_next_steps") =>
        LET lines == HighLines(call.critiques, 2)
        IN  /\ lines # << >> => call.res = SubSeq(lines, 1, Min(5, Len(lines)))
            /\ lines = << >> <=> call.res = DefaultNextSteps

\* one critique whose improvements are medium, high, high: the second is
\* listed, the third is not looked at
C17_Witness ==
    /\ HelperCalled("generate_next_steps")
    /\ Len(call.critiques) = 1
    /\ Len(Improvements(call.critiques[1])) = 3
    /\ ~IsHigh(Improvements(call.critiques[1])[1])
    /\ IsHigh(Improvements(call.critiques[1])[2])
    /\ IsHigh(Improvements(call.critiques[1])[3])
    /\ call.res = << <<"High priority: ", "Suggestion ", "1", ".", "2">> >>

----------------------------------------------------------------------------
\* C18: key_insights has one entry per research item, in research order, of
\* the form 'Task <id>: <first 150 characters of the summary>...', and never
\* more than 5 entries: only the first 5 research items contribute.
C18_KeyInsights ==
    HelperCalled("extract_key_insights") =>
        /\ Len(call.res) = Min(5, Len(call.research_items))
        /\ \A i \in 1..Len(call.res) :
               LET item == call.research_items[i]
                   summary == item.research["summary"].v
               IN  call.res[i] = <<"Task ", NumStr(item.task_id), ": ">>
                                     \o SubSeq(summary, 1, Min(150, Len(summary)))
                                     \o <<"...">>

\* six research items, the first with a summary of 151 characters: five
\* insights, the first with 150 characters of the summary
C18_Witness ==
    /\ HelperCalled("extract_key_insights")
    /\ Len(call.research_items) = 6
    /\ Len(call.research_items[1].research["summary"].v) = 151
    /\ Len(call.research_items[2].research["summary"].v) = 3
    /\ Len(call.res) = 5
    /\ Len(call.res[1]) = 3 + 150 + 1
    /\ call.res[2] = <<"Task ", "2", ": ", "1", "2", "3", "...">>

----------------------------------------------------------------------------
\* the query has a four-digit year among its words
HasYear(query) == \E i \in 1..Len(query) : query[i].w \in {"2019", "2023", "2024"}

\* the query has the digits 2024 or 2023 somewhere in its text
Has2024or2023(query) ==
    \E i \in 1..Len(query) : query[i].w \in {"2023", "2024", "sku120245"}

\* C19 as stated: the optimizer returns the query unchanged whenever a
\* four-digit year appears in it, and the query followed by ' 2024' when its
\* words are plain.
C19_UnchangedIffYear ==
    HelperCalled("optimize_query") =>
        /\ HasYear(call.query) => call.res = call.query
        /\ (\A i \in 1..Len(call.query) : call.query[i].w = "word")
               => call.res = Append(call.query, Word("2024", 0))

\* C19 amended: the optimizer returns the query unchanged exactly when the
\* text '2024' or '2023' occurs in it, also inside a longer word, and
\* otherwise returns the query followed by ' 2024', also when the query
\* has another year such as 2019.
C19_UnchangedIff2024or2023 ==
    HelperCalled("optimize_query") =>
        call.res = IF Has2024or2023(call.query) THEN call.query
                   ELSE Append(call.query, Word("2024", 0))

\* a query with the year 2019 comes back with 2019 and 2024
C19_Witness ==
    /\ HelperCalled("optimize_query")
    /\ Len(call.query) = 3
    /\ call.query[2].w = "2019"
    /\ call.res = <<Word("word", 1), Word("2019", 2), Word("word", 3), Word("2024", 0)>>

----------------------------------------------------------------------------
\* C20: a query of more than 15 words is cut to its first 12 words before
\* the year check and append: the query sent to the primary search is the
\* optimizer's result on the first 12 words of a query of more than 15
\* words, and on the whole query otherwise.
C20_TruncateThenOptimize ==
    HelperCalled("search_web") /\ call.s.key =>
        LET head == IF Len(call.query) > 15 THEN SubSeq(call.query, 1, 12)
                    ELSE call.query
        IN  call.sent.primary = <<optimize_query(head)>>

----------------------------------------------------------------------------
\* C21 (as stated): with the key configured, search_web calls the secondary
\* provider exactly when the primary one raises or returns no results.
C21_SecondaryIffPrimaryFails ==
    (HelperCalled("search_web") /\ call.s.key) =>
        (call.sent.secondary # << >>
            <=> (~call.s.primary.ok \/ call.s.primary.hits = << >>))

----------------------------------------------------------------------------
\* the calls of research_topic the run has made, in order
ResearchCalls == CallsOf("research_topic")

\* the search of the k-th research call returned nothing
EmptySearch(k) == ResearchCalls[k].arg.search_results = << >>

\* C22: when the search returns nothing, research_topic returns the
\* empty-research record (summary "No search results found", no findings,
\* statistics, sources or raw results) without invoking the model, and a
\* run that returns has critiqued that record like any other item.
C22_EmptySearchFallback ==
    /\ \A k \in 1..Len(ResearchCalls) :
           EmptySearch(k) =>
               LET e == ResearchCalls[k]
               IN  /\ e.model = 0
                   /\ e.res.exc = ""
                   /\ e.res.ret["topic"] = Str(e.arg.topic)
                   /\ e.res.ret["summary"] = Str(<<"No search results found">>)
                   /\ \A f \in {"key_findings", "statistics", "sources",
                                 "raw_results"} : e.res.ret[f] = List(<< >>)
    /\ Returning =>
           \A k \in 1..Len(ResearchCalls) :
               EmptySearch(k) =>
                   /\ k <= Len(all_critiques)
                   /\ CriticCalls[k].arg.research = ResearchCalls[k].res.ret
                   /\ all_critiques[k].task_id = all_research[k].task_id
                   /\ all_critiques[k].critique = CriticCalls[k].res.ret

C22_Witness ==
    /\ pc = "done"
    /\ Len(ResearchCalls) = 2
    /\ EmptySearch(1) /\ ~EmptySearch(2)
    /\ all_research[1].research["summary"] = Str(<<"No search results found">>)
    /\ Len(all_critiques) = 2
    /\ all_critiques[1].critique["original_research_summary"]
           = Str(<<"No search results found">>)

----------------------------------------------------------------------------
\* C23: a research record is never modified after research_topic returned
\* it: the record kept in all_research, the one the critic was given and
\* the one the report is assembled from are the record of the call.
C23_ResearchUnchanged ==
    /\ Len(all_research) <= Len(ResearchCalls)
    /\ \A k \in 1..Len(all_research) :
           /\ all_research[k].research = ResearchCalls[k].res.ret
           /\ k <= Len(all_critiques) =>
                  CriticCalls[k].arg.research = ResearchCalls[k].res.ret
           /\ Returning =>
                  final_report.detailed_findings[k].research_summary
                      = Get(ResearchCalls[k].res.ret, "summary", Str(<< >>))

C23_Witness ==
    /\ pc = "done"
    /\ Len(all_research) = 2
    /\ Len(CriticCalls) = 3
    /\ all_research[1].research = ResearchCalls[1].res.ret
    /\ all_research[1].research["key_findings"] = List(<<GoodFinding>>)
    /\ all_research[2].research["key_findings"] = List(<<GoodFinding>>)
    /\ files # << >>

----------------------------------------------------------------------------
\* the names, with extension, of the files written so far
FileNames == [i \in 1..Len(files) |-> <<files[i].name, files[i].ext>>]

\* C24: no file is written before the final report is assembled, a run
\* that stops before that has written nothing, and a run that completes
\* has written the four JSON documents plan, research, critiques and
\* final_report and one text summary, all with one timestamp and one slug.
C24_FilesAtCompletion ==
    /\ final_report = << >> => files = << >>
    /\ pc \notin {"done", "raised"} => files = << >>
    /\ pc = "done" =>
           /\ FileNames = << <<"plan", "json">>, <<"research", "json">>,
                            <<"critiques", "json">>, <<"final_report", "json">>,
                            <<"summary", "txt">> >>
           /\ \A i \in 1..Len(files) :
                  /\ files[i].timestamp = files[1].timestamp
                  /\ files[i].slug = files[1].slug
                  /\ files[i].complete

C24_Witness ==
    /\ pc = "done"
    /\ Len(files) = 5
    /\ files[5].ext = "txt"
    /\ files[1].slug = <<"E", "v", "a", "l", "u", "a", "t", "e", "_", "X">>
    /\ files[1].timestamp = files[5].timestamp
    /\ Len(all_research) = 1

----------------------------------------------------------------------------
\* C25 (as stated): the slug of every problem text has at most 50
\* characters and contains no space, no "?", no "." and no "/".
C25_SlugSanitized ==
    HelperCalled("safe_problem") =>
        /\ Len(call.res) <= 50
        /\ \A i \in 1..Len(call.res) : call.res[i] \notin {" ", "?", ".", "/"}

----------------------------------------------------------------------------
\* C26 (as stated): the subtask ids of the plan create_plan returned are
\* pairwise distinct.
C26_DistinctIds ==
    pc # "plan" =>
        \A i, j \in 1..Len(PlanIds) : i # j => PlanIds[i] # PlanIds[j]

----------------------------------------------------------------------------
\* v is a JSON integer between 1 and 10
IsScore(v) == v.kind = "num" /\ v.v \in 1..10

\* C27 (as stated): every critique critique_research returns has
\* overall_quality and the three validation scores as integers in 1..10
\* and a confidence_level among high, medium and low.
C27_ScoresInRange ==
    (Called /\ call.op = "critique_research" /\ call.res.exc = "") =>
        LET critique == call.res.ret
        IN  /\ {"overall_quality", "validation", "confidence_level"}
                   \subseteq DOMAIN critique
            /\ IsScore(critique["overall_quality"])
            /\ critique["validation"].kind = "obj"
            /\ \A k \in {"completeness_score", "accuracy_score",
                          "source_credibility_score"} :
                   /\ k \in DOMAIN critique["validation"].v
                   /\ IsScore(critique["validation"].v[k])
            /\ critique["confidence_level"]
                   \in {Str(<<"high">>), Str(<<"medium">>), Str(<<"low">>)}

----------------------------------------------------------------------------
\* the agent labels whose subtasks are researched
ResearchLabels == {"researcher", "analyst", "data_scientist"}

\* the number of subtasks of the plan with such a label
LabelledSubtasks ==
    Cardinality({i \in 1..Len(plan["subtasks"].v) :
                    plan["subtasks"].v[i].agent \in ResearchLabels})

\* research_topic has been called on the task of this subtask
WasResearched(task) ==
    \E k \in 1..Len(ResearchCalls) : ResearchCalls[k].arg.topic = task.task

\* C28: a subtask is researched if and only if its agent label is
\* researcher, analyst or data_scientist; in the final report
\* critiques_generated equals research_tasks_completed, which is the number
\* of such subtasks and at most total_tasks.
C28_CountsAgree ==
    /\ pc \in {"research", "critique", "save", "done"} =>
           \A i \in 1..Len(Visited) :
               WasResearched(Visited[i]) <=> Visited[i].agent \in ResearchLabels
    /\ Returning =>
           LET metadata == final_report.metadata
           IN  /\ metadata.critiques_generated = metadata.research_tasks_completed
               /\ metadata.research_tasks_completed = LabelledSubtasks
               /\ metadata.total_tasks = Len(plan["subtasks"].v)
               /\ metadata.research_tasks_completed <= metadata.total_tasks

C28_Witness ==
    /\ pc = "done"
    /\ final_report.metadata.total_tasks = 2
    /\ final_report.metadata.research_tasks_completed = 1
    /\ final_report.metadata.critiques_generated = 1
    /\ plan["subtasks"].v[2].agent = "critic"
    /\ ~WasResearched(plan["subtasks"].v[2])

----------------------------------------------------------------------------
\* the number of model invocations of a sequence of calls
RECURSIVE Invocations(_)
Invocations(events) ==
    IF events = << >> THEN 0
    ELSE Head(events).model + Invocations(Tail(events))

----------------------------------------------------------------------------
\* C30 (as stated): on the plan of a run that returns, the mock
\* orchestrator researches and critiques the same sequence of subtask ids
\* as analyze did.
C30_SameIdsAsMock ==
    Returning =>
        /\ TaskIds(all_research) = TaskIds(mock_research_items(plan))
        /\ TaskIds(all_critiques)
               = TaskIds(mock_critiques(mock_research_items(plan)))

====
